---- MODULE Spec2Model ----
(***************************************************************************)
(* State-machine model of brainiak.reconstruct.iem.InvertedEncoding.       *)
(*                                                                         *)
(* Feature values (range_start, range_stop, labels y, decoded directions)  *)
(* are rationals; the model carries them as integers in units of           *)
(* 1/(channel_density - 1) degree, so that every sample of                 *)
(* np.linspace(range_start, range_stop, channel_density) is an integer.    *)
(* Channel values cos(.)^6 are carried in fixed point with Scale units     *)
(* per 1.0.  The two least-squares solves are library calls: the model     *)
(* keeps the shapes they produce and the inputs on which they raise.       *)
(***************************************************************************)
EXTENDS Integers, Sequences, FiniteSets, TLC

\* ------------------------------------------------------------------ bounds
MaxChannels == 5      \* n_channels ranges over 1..MaxChannels
MaxTrials == 2        \* rows of X and length of y range over 1..MaxTrials
MaxUnits == 1         \* columns of X range over 1..MaxUnits

\* ------------------------------------------------- constants of the code
channel_exp == 6
channel_density == 180
Scale == 10000        \* fixed-point resolution of the channel values
PiScaled == 31416     \* math.pi in Scale units

Den == channel_density - 1

RangeStarts == {0, 2}
RangeStops == {90, 180}
ChannelCounts == 1..MaxChannels

\* labels handed to fit, in 1/Den degree: -1 deg, 90/179 deg, 181 deg
FitLabels == {0 - Den, 90, 181 * Den}
\* labels handed to score, in 1/Den degree: 0 deg, 180/179 deg
ScoreLabels == {0, 180}
\* arg-max positions the decoded data may peak at
PeakIndices == {0, 1}

Abs(a) == IF a < 0 THEN 0 - a ELSE a

\* ------------------------------------------------------ numeric helpers
\* np.cos(pi * p / q) in Scale units
Cos(p, q) ==
    LET a0 == Abs(p) % (2 * q)
        a1 == IF a0 > q THEN 2 * q - a0 ELSE a0
        neg == 2 * a1 > q
        a == IF neg THEN q - a1 ELSE a1
        x == (PiScaled * a) \div q
        x2 == (x * x) \div Scale
        x4 == (x2 * x2) \div Scale
        x6 == (x4 * x2) \div Scale
        x8 == ((x4 \div 10) * (x4 \div 10)) \div (Scale \div 100)
        c == Scale - (x2 \div 2) + (x4 \div 24) - (x6 \div 720)
                   + (x8 \div 40320)
    IN  IF neg THEN 0 - c ELSE c

\* base ** e in Scale units, e >= 1
RECURSIVE Pow(_, _)
Pow(base, e) ==
    IF e = 1 THEN base
    ELSE LET r == Pow(base, e - 1)
         IN IF (r < 0) = (base < 0)
            THEN (Abs(r) * Abs(base)) \div Scale
            ELSE 0 - ((Abs(r) * Abs(base)) \div Scale)

\* channels[i, k] for i in 0..n-1, k in 0..channel_density-1:
\* np.cos(np.linspace(0, pi, channel_density)[k] - shifts[i]) ** channel_exp
\* with shifts = np.linspace(0, pi - pi/n, n), i.e. shifts[i] = i*pi/n
ChannelValue(n, i, k) == Pow(Cos(k * n - Den * i, Den * n), channel_exp)

\* the basis matrix for n channels, one row per channel
ChannelTable ==
    [n \in 1..MaxChannels |->
        [i \in 0..(n - 1) |->
            [k \in 0..(channel_density - 1) |-> ChannelValue(n, i, k)]]]

RECURSIVE SumRows(_, _, _)
SumRows(M, k, i) ==
    IF i < 0 THEN 0 ELSE M[i][k] + SumRows(M, k, i - 1)

\* np.sum(channels, 0)
ColumnSums(n) ==
    [k \in 0..(channel_density - 1) |-> SumRows(ChannelTable[n], k, n - 1)]

\* np.max / min over f[lo..hi], by halving
RECURSIVE MaxOver(_, _, _)
MaxOver(f, lo, hi) ==
    IF lo = hi THEN f[lo]
    ELSE LET mid == (lo + hi) \div 2
             l == MaxOver(f, lo, mid)
             r == MaxOver(f, mid + 1, hi)
         IN IF r > l THEN r ELSE l

RECURSIVE MinOver(_, _, _)
MinOver(f, lo, hi) ==
    IF lo = hi THEN f[lo]
    ELSE LET mid == (lo + hi) \div 2
             l == MinOver(f, lo, mid)
             r == MinOver(f, mid + 1, hi)
         IN IF r < l THEN r ELSE l

\* ch_sum_range, per number of channels
ChSumRange ==
    [n \in 1..MaxChannels |->
        LET s == ColumnSums(n)
        IN MaxOver(s, 0, channel_density - 1) - MinOver(s, 0, channel_density - 1)]

\* ------------------------------------------------------- stored values
\* self.C_: the basis matrix with `rows` rows; ChannelTable[rows] when fit
\* built it
NoC == [has |-> FALSE, rows |-> 0]
\* self.C_D_: np.linspace(start, stop, channel_density)
NoCD == [has |-> FALSE, start |-> 0, stop |-> 0]
\* self.W_: the fitted regression; coef_ has shape [n_units, n_channels]
NoW == [has |-> FALSE, n_channels |-> 0, n_units |-> 0]

\* arrays and a regression a caller may hand to set_params by attribute name
CallerC == [has |-> TRUE, rows |-> 3]
CallerCD == [has |-> TRUE, start |-> 0, stop |-> 90]
CallerW == [has |-> TRUE, n_channels |-> 3, n_units |-> 1]

\* np.linspace(start, stop, channel_density)[k], in 1/Den degree
DomainValue(cd, k) == Den * cd.start + k * (cd.stop - cd.start)

\* self.C_[:, k]
Column(rows, k) == [i \in 0..(rows - 1) |-> ChannelTable[rows][i][k]]

\* ---------------------------------------------------------------- inputs
Shapes ==
    {<<t>> : t \in 1..MaxTrials}
    \cup {<<t, u>> : t \in 1..MaxTrials, u \in 1..MaxUnits}
    \cup {<<t, u, 2>> : t \in 1..MaxTrials, u \in 1..MaxUnits}

\* an array X: its shape and whether every entry is finite
XInputs ==
    {[shape |-> s, finite |-> TRUE] : s \in Shapes}
    \cup {[shape |-> s, finite |-> FALSE] : s \in {q \in Shapes : Len(q) = 2}}
NoX == [shape |-> <<>>, finite |-> TRUE]

\* label vectors over the label set L
LabelSeqs(L) == UNION {[1..m -> L] : m \in 1..MaxTrials}

\* keyword arguments of set_params
HyperKw ==
    {[n_channels |-> v] : v \in ChannelCounts}
    \cup {[range_start |-> v] : v \in RangeStarts}
    \cup {[range_stop |-> v] : v \in RangeStops}
ModelKw ==
    {[C_ |-> CallerC], [C_D_ |-> CallerCD], [W_ |-> CallerW],
     [C_ |-> CallerC, C_D_ |-> CallerCD, W_ |-> CallerW]}

\* errors
ErrChannels == "Insufficient channels."
ErrData == "Not enough data"
ErrIllCond == "Data Matrix ill-conditioned"
ErrMismatch == "Mismatched data samples and label samples"
ErrCoverage == "Insufficient channel coverage."
ErrRegression == "ValueError in LinearRegression.fit"
ErrAttribute == "AttributeError"
ErrAlign == "ValueError: shapes not aligned"
ErrBroadcast == "ValueError: operands could not be broadcast"

\* ------------------------------------------------------------ the state
VARIABLES
    n_channels,     \* self.n_channels
    range_start,    \* self.range_start (degrees)
    range_stop,     \* self.range_stop (degrees)
    C_,             \* self.C_
    C_D_,           \* self.C_D_
    W_,             \* self.W_
    fit_units,      \* history: n_units of the latest fit call that returned
                    \* normally, 0 while none has
    one_fit,        \* history: C_, C_D_ and W_ were written by one fit call
    ret             \* the call that has just ended: arguments and result

vars == <<n_channels, range_start, range_stop, C_, C_D_, W_, fit_units,
          one_fit, ret>>
hyper == <<n_channels, range_start, range_stop>>
model == <<C_, C_D_, W_>>

\* no call has ended since the caller last took a result
Idle == [op |-> "idle", X |-> NoX, y |-> <<>>, kw |-> <<>>,
         outcome |-> "ok", value |-> <<>>]

\* InvertedEncoding(n_channels, range_start, range_stop)
Init ==
    /\ n_channels \in ChannelCounts
    /\ range_start \in RangeStarts
    /\ range_stop \in RangeStops
    /\ C_ = NoC
    /\ C_D_ = NoCD
    /\ W_ = NoW
    /\ fit_units = 0
    /\ one_fit = FALSE
    /\ ret = Idle

\* ------------------------------------------------------------------ fit
\* fit_validate with the label-length check moved ahead of the conditioning
\* check
fit_validate_labels_first(n, X, y) ==
    IF n < 2 THEN ErrChannels
    ELSE IF Len(X.shape) < 2 THEN ErrData
    ELSE IF X.shape[1] # Len(y) THEN ErrMismatch
    ELSE IF X.shape[1] <= X.shape[2] THEN ErrIllCond
    ELSE "ok"

\* the checks at the head of fit; "ok" when none raises
fit_validate(n, X, y) ==
    IF n < 2 THEN ErrChannels
    ELSE IF Len(X.shape) < 2 THEN ErrData
    ELSE IF X.shape[1] <= X.shape[2] THEN ErrIllCond
    ELSE IF X.shape[1] # Len(y) THEN ErrMismatch
    ELSE "ok"

\* coverage_fails with a threshold of 1% of the domain range
coverage_fails_one_percent(n, rs, rst) ==
    ChSumRange[n] * 18000 > (rst - rs) * PiScaled

\* ch_sum_range > np.deg2rad(range_stop - range_start) * 0.1
coverage_fails(n, rs, rst) ==
    ChSumRange[n] * 1800 > (rst - rs) * PiScaled

\* _define_channels: raises, or returns (channels, channel_domain)
define_channels(n, rs, rst) ==
    IF coverage_fails(n, rs, rst)
    THEN [error |-> TRUE, channels |-> NoC, channel_domain |-> NoCD]
    ELSE [error |-> FALSE,
          channels |-> [has |-> TRUE, rows |-> n],
          channel_domain |-> [has |-> TRUE, start |-> rs, stop |-> rst]]

\* (y_i - self.C_D_) ** 2
SqDist(yi, cd) ==
    [k \in 0..(channel_density - 1) |->
        (yi - DomainValue(cd, k)) * (yi - DomainValue(cd, k))]

\* argmin returning the last index holding the minimum
RECURSIVE argmin_last(_, _, _)
argmin_last(d, lo, hi) ==
    IF lo = hi THEN lo
    ELSE LET mid == (lo + hi) \div 2
             l == argmin_last(d, lo, mid)
             r == argmin_last(d, mid + 1, hi)
         IN IF d[r] <= d[l] THEN r ELSE l

\* np.argmin over d[lo..hi]: the first index holding the minimum
RECURSIVE argmin(_, _, _)
argmin(d, lo, hi) ==
    IF lo = hi THEN lo
    ELSE LET mid == (lo + hi) \div 2
             l == argmin(d, lo, mid)
             r == argmin(d, mid + 1, hi)
         IN IF d[r] < d[l] THEN r ELSE l

\* k_min for a label yi and the domain linspace(rs, rst, channel_density)
k_min(yi, rs, rst) ==
    argmin(SqDist(yi, [start |-> rs, stop |-> rst]), 0, channel_density - 1)

\* k_min, tabulated over the labels and domains fit is given
KMin ==
    [yi \in FitLabels \cup ScoreLabels, rs \in RangeStarts, rst \in RangeStops
        |-> k_min(yi, rs, rst)]

\* LinearRegression.fit(A, B) raises: B has more than 2 dimensions, has a
\* non-finite entry, or A and B disagree on the number of samples
regression_raises(rowsA, rowsB, ndimB, finiteB) ==
    \/ ndimB > 2
    \/ ~finiteB
    \/ rowsA # rowsB

\* fit_body with the basis built and stored before the input checks
fit_body_basis_first(n, rs, rst, C, CD, W, X, y) ==
    LET v == fit_validate(n, X, y)
        dc == define_channels(n, rs, rst)
        newF == [i \in 1..Len(y) |-> Column(n, KMin[y[i], rs, rst])]
    IN  IF dc.error
        THEN [C_ |-> C, C_D_ |-> CD, W_ |-> W, F |-> <<>>,
              outcome |-> IF v # "ok" THEN v ELSE ErrCoverage]
        ELSE IF v # "ok"
        THEN [C_ |-> dc.channels, C_D_ |-> dc.channel_domain, W_ |-> W,
              F |-> <<>>, outcome |-> v]
        ELSE IF regression_raises(Len(y), X.shape[1], Len(X.shape), X.finite)
        THEN [C_ |-> dc.channels, C_D_ |-> dc.channel_domain, W_ |-> W,
              F |-> newF, outcome |-> ErrRegression]
        ELSE [C_ |-> dc.channels, C_D_ |-> dc.channel_domain,
              W_ |-> [has |-> TRUE, n_channels |-> n, n_units |-> X.shape[2]],
              F |-> newF, outcome |-> "ok"]

\* the whole of fit: the stored values after the call, the matrix F it built
\* and how it ended
fit_body(n, rs, rst, C, CD, W, X, y) ==
    LET v == fit_validate(n, X, y)
        dc == define_channels(n, rs, rst)
        newF == [i \in 1..Len(y) |-> Column(n, KMin[y[i], rs, rst])]
    IN  IF v # "ok"
        THEN [C_ |-> C, C_D_ |-> CD, W_ |-> W, F |-> <<>>, outcome |-> v]
        ELSE IF dc.error
        THEN [C_ |-> C, C_D_ |-> CD, W_ |-> W, F |-> <<>>,
              outcome |-> ErrCoverage]
        ELSE IF regression_raises(Len(y), X.shape[1], Len(X.shape), X.finite)
        THEN [C_ |-> dc.channels, C_D_ |-> dc.channel_domain, W_ |-> W,
              F |-> newF, outcome |-> ErrRegression]
        ELSE [C_ |-> dc.channels, C_D_ |-> dc.channel_domain,
              W_ |-> [has |-> TRUE, n_channels |-> n, n_units |-> X.shape[2]],
              F |-> newF, outcome |-> "ok"]

\* fit(X, y) for X in XS and y in YS
Fit(XS, YS) ==
    \E X \in XS, y \in YS :
        /\ ret = Idle
        /\ LET r == fit_body(n_channels, range_start, range_stop, C_, C_D_,
                             W_, X, y)
           IN /\ C_' = r.C_
              /\ C_D_' = r.C_D_
              /\ W_' = r.W_
              /\ fit_units' = IF r.outcome = "ok" THEN X.shape[2]
                              ELSE fit_units
              /\ one_fit' = IF r.outcome = "ok" THEN TRUE
                            ELSE IF r.outcome = ErrRegression THEN FALSE
                            ELSE one_fit
              /\ ret' = [op |-> "fit", X |-> X, y |-> y, kw |-> <<>>,
                         outcome |-> r.outcome, value |-> r.F]
        /\ UNCHANGED hyper

\* -------------------------------------------------------------- predict
\* predict_body returning pred_indx in place of self.C_D_[pred_indx]
predict_body_index(C, CD, W, X, peaks) ==
    IF Len(X.shape) < 2 THEN [outcome |-> ErrData, value |-> <<>>]
    ELSE IF X.shape[1] <= X.shape[2]
    THEN [outcome |-> ErrIllCond, value |-> <<>>]
    ELSE IF ~W.has THEN [outcome |-> ErrAttribute, value |-> <<>>]
    ELSE IF regression_raises(W.n_units, X.shape[2], Len(X.shape), X.finite)
    THEN [outcome |-> ErrRegression, value |-> <<>>]
    ELSE IF ~C.has THEN [outcome |-> ErrAttribute, value |-> <<>>]
    ELSE IF W.n_channels # C.rows THEN [outcome |-> ErrAlign, value |-> <<>>]
    ELSE IF ~CD.has THEN [outcome |-> ErrAttribute, value |-> <<>>]
    ELSE [outcome |-> "ok",
          value |-> [i \in 1..X.shape[1] |-> Den * peaks[i]]]

\* the whole of predict; peaks[i] is np.argmax(pred_response, axis=1)[i]
predict_body(C, CD, W, X, peaks) ==
    IF Len(X.shape) < 2 THEN [outcome |-> ErrData, value |-> <<>>]
    ELSE IF X.shape[1] <= X.shape[2]
    THEN [outcome |-> ErrIllCond, value |-> <<>>]
    ELSE IF ~W.has THEN [outcome |-> ErrAttribute, value |-> <<>>]
    ELSE IF regression_raises(W.n_units, X.shape[2], Len(X.shape), X.finite)
    THEN [outcome |-> ErrRegression, value |-> <<>>]
    ELSE IF ~C.has THEN [outcome |-> ErrAttribute, value |-> <<>>]
    ELSE IF W.n_channels # C.rows THEN [outcome |-> ErrAlign, value |-> <<>>]
    ELSE IF ~CD.has THEN [outcome |-> ErrAttribute, value |-> <<>>]
    ELSE [outcome |-> "ok",
          value |-> [i \in 1..X.shape[1] |-> DomainValue(CD, peaks[i])]]

\* predict(X) for X in XS, the data peaking at positions in P
Predict(XS, P) ==
    \E X \in XS :
        \E peaks \in [1..X.shape[1] -> P] :
            /\ ret = Idle
            /\ LET r == predict_body(C_, C_D_, W_, X, peaks)
               IN ret' = [op |-> "predict", X |-> X, y |-> <<>>,
                          kw |-> <<>>, outcome |-> r.outcome,
                          value |-> r.value]
            /\ UNCHANGED <<hyper, model, fit_units, one_fit>>

\* ---------------------------------------------------------------- score
RECURSIVE Gcd(_, _)
Gcd(a, b) == IF b = 0 THEN a ELSE Gcd(b, a % b)

\* the float num/den in lowest terms; den = 0 stands for nan and -inf
Fraction(num, den) ==
    LET g == Gcd(Abs(num), den)
    IN [num |-> IF num < 0 THEN 0 - (Abs(num) \div g) ELSE num \div g,
        den |-> den \div g]
NaN == [num |-> 0, den |-> 0]
NegInf == [num |-> 0 - 1, den |-> 0]

\* (f(1)**2 + ... + f(n)**2), f given as a sequence
RECURSIVE SumSq(_, _)
SumSq(f, n) == IF n = 0 THEN 0 ELSE f[n] * f[n] + SumSq(f, n - 1)

RECURSIVE SumSeq(_, _)
SumSeq(f, n) == IF n = 0 THEN 0 ELSE f[n] + SumSeq(f, n - 1)

\* score_value returning u/v in place of 1 - u/v
score_value_ratio(y, pred) ==
    LET m == Len(y)
        n == Len(pred)
        u == SumSq([i \in 1..n |-> (IF m = 1 THEN y[1] ELSE y[i]) - pred[i]],
                   n)
        sy == SumSeq(y, m)
        vm == SumSq([i \in 1..m |-> m * y[i] - sy], m)
    IN  IF vm = 0
        THEN (IF u = 0 THEN NaN ELSE NegInf)
        ELSE Fraction(m * m * u, vm)

\* u = ((y - pred_dir)**2).sum(); v = ((y - np.mean(y))**2).sum();
\* rss = 1 - u/v.  A y of length 1 broadcasts against pred_dir.
\* With m = len(y), vm below is m*m*v, so rss = (vm - m*m*u) / vm.
score_value(y, pred) ==
    LET m == Len(y)
        n == Len(pred)
        u == SumSq([i \in 1..n |-> (IF m = 1 THEN y[1] ELSE y[i]) - pred[i]],
                   n)
        sy == SumSeq(y, m)
        vm == SumSq([i \in 1..m |-> m * y[i] - sy], m)
    IN  IF vm = 0
        THEN (IF u = 0 THEN NaN ELSE NegInf)
        ELSE Fraction(vm - m * m * u, vm)

\* the whole of score
score_body(C, CD, W, X, y, peaks) ==
    LET p == predict_body(C, CD, W, X, peaks)
    IN  IF p.outcome # "ok" THEN [outcome |-> p.outcome, value |-> <<>>]
        ELSE IF Len(y) # 1 /\ Len(y) # Len(p.value)
        THEN [outcome |-> ErrBroadcast, value |-> <<>>]
        ELSE [outcome |-> "ok",
              value |-> [pred |-> p.value, rss |-> score_value(y, p.value)]]

\* score(X, y) for X in XS and y in YS, the data peaking at positions in P
Score(XS, YS, P) ==
    \E X \in XS, y \in YS :
        \E peaks \in [1..X.shape[1] -> P] :
            /\ ret = Idle
            /\ LET r == score_body(C_, C_D_, W_, X, y, peaks)
               IN ret' = [op |-> "score", X |-> X, y |-> y, kw |-> <<>>,
                          outcome |-> r.outcome, value |-> r.value]
            /\ UNCHANGED <<hyper, model, fit_units, one_fit>>

\* ------------------------------------------------ get_params, set_params
\* get_params with range_start and range_stop exchanged
get_params_swapped(n, rs, rst) ==
    [n_channels |-> n, range_start |-> rst, range_stop |-> rs]

\* get_params(): the mapping it returns
get_params(n, rs, rst) ==
    [n_channels |-> n, range_start |-> rs, range_stop |-> rst]

\* the attribute `name` after the loop of set_params(**kw), cur before it
set_params(kw, name, cur) ==
    IF name \in DOMAIN kw THEN kw[name] ELSE cur

GetParams ==
    /\ ret = Idle
    /\ ret' = [op |-> "get_params", X |-> NoX, y |-> <<>>, kw |-> <<>>,
               outcome |-> "ok",
               value |-> get_params(n_channels, range_start, range_stop)]
    /\ UNCHANGED <<hyper, model, fit_units, one_fit>>

\* the state change of set_params(**kw)
Assign(kw) ==
    /\ n_channels' = set_params(kw, "n_channels", n_channels)
    /\ range_start' = set_params(kw, "range_start", range_start)
    /\ range_stop' = set_params(kw, "range_stop", range_stop)
    /\ C_' = set_params(kw, "C_", C_)
    /\ C_D_' = set_params(kw, "C_D_", C_D_)
    /\ W_' = set_params(kw, "W_", W_)
    /\ one_fit' = (one_fit /\ DOMAIN kw \cap {"C_", "C_D_", "W_"} = {})
    /\ UNCHANGED fit_units

\* set_params(**kw) for kw in KS
SetParams(KS) ==
    \E kw \in KS :
        /\ ret = Idle
        /\ Assign(kw)
        /\ ret' = [op |-> "set_params", X |-> NoX, y |-> <<>>, kw |-> kw,
                   outcome |-> "ok", value |-> <<>>]

\* est.set_params(**est.get_params()), then est.get_params()
RoundTrip ==
    LET kw == get_params(n_channels, range_start, range_stop)
    IN  /\ ret = Idle
        /\ Assign(kw)
        /\ ret' = [op |-> "set_params(**get_params())", X |-> NoX,
                   y |-> <<>>, kw |-> kw, outcome |-> "ok",
                   value |-> get_params(n_channels', range_start',
                                        range_stop')]

\* the caller takes the result (or the exception) of the call that ended
Return ==
    /\ ret # Idle
    /\ ret' = Idle
    /\ UNCHANGED <<hyper, model, fit_units, one_fit>>

\* ------------------------------------------------------- specifications
\* the life of one estimator: every operation, label values not varied
FitCall == Fit(XInputs, LabelSeqs({90}))
PredictCall == Predict(XInputs, PeakIndices)
ScoreCall == Score(XInputs, LabelSeqs({0}), {0})
SetParamsCall == SetParams(HyperKw \cup ModelKw)

Next ==
    \/ FitCall
    \/ PredictCall
    \/ ScoreCall
    \/ GetParams
    \/ SetParamsCall
    \/ RoundTrip
    \/ Return

Spec == Init /\ [][Next]_vars

\* the same life with set_params given hyperparameter names only
SetParamsHyper == SetParams(HyperKw)

NextHyper ==
    \/ FitCall
    \/ PredictCall
    \/ ScoreCall
    \/ GetParams
    \/ SetParamsHyper
    \/ RoundTrip
    \/ Return

SpecHyper == Init /\ [][NextHyper]_vars

\* fit over every label vector
FitLabelled == Fit(XInputs, LabelSeqs(FitLabels))
NextLabels == FitLabelled \/ Return
SpecLabels == Init /\ [][NextLabels]_vars

\* score over every label vector and every decoded vector
ScoreLabelled == Score(XInputs, LabelSeqs(ScoreLabels), PeakIndices)
NextScore == FitCall \/ ScoreLabelled \/ Return
SpecScore == Init /\ [][NextScore]_vars

\* --------------------------------------------------------------- claims
Fitted == fit_units > 0
TaxonomyErrors == {ErrChannels, ErrData, ErrIllCond, ErrMismatch, ErrCoverage}
DefaultRange == range_start = 0 /\ range_stop = 180

\* C1: a fit call that ends in one of the five taxonomy errors leaves the
\* hyperparameters and the stored C_, C_D_ and W_ (present or absent) exactly
\* as they were before the call.
C1_FailedFitChangesNothing ==
    [][(ret'.op = "fit" /\ ret'.outcome \in TaxonomyErrors)
         => (hyper' = hyper /\ model' = model)]_vars

\* a fit that raised the coverage error on an estimator holding the model of
\* an earlier successful fit
C1_Witness ==
    /\ ret.op = "fit"
    /\ ret.outcome = ErrCoverage
    /\ Fitted /\ one_fit /\ W_.has

\* C2: fit reports the first violated precondition in the order n_channels
\* >= 2, X has 2 dimensions, n_trials > n_units, n_trials = len(y); the basis
\* is built, and the coverage error possible, only when all four hold.
C2_FirstViolationReported ==
    ret.op = "fit" =>
        LET s == ret.X.shape
            badChannels == n_channels < 2
            badDims == Len(s) < 2
            badCond == Len(s) >= 2 /\ s[1] <= s[2]
            badLabels == s[1] # Len(ret.y)
        IN  /\ badChannels => ret.outcome = ErrChannels
            /\ (~badChannels /\ badDims) => ret.outcome = ErrData
            /\ (~badChannels /\ ~badDims /\ badCond)
                   => ret.outcome = ErrIllCond
            /\ (~badChannels /\ ~badDims /\ ~badCond /\ badLabels)
                   => ret.outcome = ErrMismatch
            /\ (~badChannels /\ ~badDims /\ ~badCond /\ ~badLabels)
                   => ret.outcome \in {"ok", ErrCoverage, ErrRegression}

\* a fit whose X is ill-conditioned and whose y has the wrong length, on an
\* estimator with enough channels: the ill-conditioned error is the one raised
C2_Witness ==
    /\ ret.op = "fit"
    /\ n_channels >= 2
    /\ Len(ret.X.shape) >= 2
    /\ ret.X.shape[1] <= ret.X.shape[2]
    /\ ret.X.shape[1] # Len(ret.y)
    /\ ret.outcome = ErrIllCond

\* C3: predict and score return a result only after some fit call on the
\* instance has succeeded, and after a successful fit a predict call with a
\* valid X (2-D, finite, n_trials > n_units, the unit count of training)
\* returns a result.
C3_PredictIffFitted ==
    /\ (ret.op \in {"predict", "score"} /\ ret.outcome = "ok") => Fitted
    /\ (/\ ret.op = "predict"
        /\ Fitted
        /\ Len(ret.X.shape) = 2
        /\ ret.X.finite
        /\ ret.X.shape[1] > ret.X.shape[2]
        /\ ret.X.shape[2] = fit_units) => ret.outcome = "ok"

\* the 180 evenly spaced values between start and stop, in 1/Den degree
Linspace(start, stop) ==
    {DomainValue([start |-> start, stop |-> stop], k) :
        k \in 0..(channel_density - 1)}

C5_OnlyFitWritesModel ==
    [][(Fitted /\ ret'.op \in {"predict", "score", "get_params",
                               "set_params", "set_params(**get_params())"})
         => /\ model' = model
            /\ ret'.op \in {"predict", "score"} => hyper' = hyper]_vars

\* C6: get_params returns exactly the current n_channels, range_start and
\* range_stop, and set_params(**get_params()) changes nothing: a second
\* get_params returns the same mapping and the rest of the state is as before.
C6_RoundTripIsNoOp ==
    [][/\ ret'.op = "get_params" =>
            /\ DOMAIN ret'.value = {"n_channels", "range_start", "range_stop"}
            /\ ret'.value.n_channels = n_channels
            /\ ret'.value.range_start = range_start
            /\ ret'.value.range_stop = range_stop
       /\ ret'.op = "set_params(**get_params())" =>
            /\ ret'.value = ret'.kw
            /\ hyper' = hyper
            /\ model' = model
            /\ fit_units' = fit_units
            /\ one_fit' = one_fit]_vars

\* the round trip made on an estimator that holds a fitted model
C6_Witness ==
    /\ ret.op = "set_params(**get_params())"
    /\ Fitted /\ one_fit

\* the ground truth seen by trial i, and the two cases of C7
Truth(y, i) == IF Len(y) = 1 THEN y[1] ELSE y[i]
PerfectPred(y, pred) == \A i \in 1..Len(pred) : pred[i] = Truth(y, i)
MeanPred(y, pred) ==
    \A i \in 1..Len(pred) : Len(y) * pred[i] = SumSeq(y, Len(y))
Constant(y) == \A i, j \in 1..Len(y) : y[i] = y[j]
One == [num |-> 1, den |-> 1]
Zero == [num |-> 0, den |-> 1]

C7_WitnessMean ==
    /\ ret.op = "score"
    /\ ret.outcome = "ok"
    /\ ~Constant(ret.y)
    /\ MeanPred(ret.y, ret.value.pred)

\* C8 as stated: with the default range 0..180, fit raises the coverage error
\* for no n_channels >= 2.
C8_DefaultCoverage ==
    (ret.op = "fit" /\ DefaultRange /\ n_channels >= 2)
        => ret.outcome # ErrCoverage

\* C8 amended: with the default range 0..180, fit raises the coverage error
\* for no n_channels >= 3, and raises it for n_channels = 2 whenever the four
\* input checks pass.
C8_DefaultCoverageFromThree ==
    (ret.op = "fit" /\ DefaultRange) =>
        /\ n_channels >= 3 => ret.outcome # ErrCoverage
        /\ (n_channels = 2 /\ fit_validate(2, ret.X, ret.y) = "ok")
               => ret.outcome = ErrCoverage

\* a fit with the default range and 3 channels that got past the basis builder
C8_Witness ==
    /\ ret.op = "fit"
    /\ DefaultRange
    /\ n_channels = 3
    /\ ret.outcome \in {"ok", ErrRegression}

\* k is the lowest index among those nearest to yi in linspace(rs, rst)
FirstNearest(k, yi, rs, rst) ==
    LET d == SqDist(yi, [start |-> rs, stop |-> rst])
    IN  /\ \A j \in 0..(channel_density - 1) : d[k] <= d[j]
        /\ \A j \in 0..(k - 1) : d[j] > d[k]

NearestTable ==
    [yi \in FitLabels, rs \in RangeStarts, rst \in RangeStops |->
        CHOOSE k \in 0..(channel_density - 1) : FirstNearest(k, yi, rs, rst)]

\* C9: in fit, row i of F is the column k of C_ where k is the lowest index
\* among the samples of C_D_ nearest to y[i]; a y[i] below the domain gets the
\* first sample and one above it the last.
C9_RowIsFirstNearestColumn ==
    (ret.op = "fit" /\ ret.outcome \in {"ok", ErrRegression}) =>
        /\ Len(ret.value) = Len(ret.y)
        /\ \A i \in 1..Len(ret.y) :
            LET k == NearestTable[ret.y[i], C_D_.start, C_D_.stop]
            IN  /\ FirstNearest(k, ret.y[i], C_D_.start, C_D_.stop)
                /\ ret.value[i] = Column(C_.rows, k)
                /\ ret.y[i] < Den * C_D_.start => k = 0
                /\ ret.y[i] > Den * C_D_.stop => k = channel_density - 1

\* a fit over the domain 0..180 given a label midway between the first two
\* samples, which got the column of the first
C9_Witness ==
    /\ ret.op = "fit"
    /\ ret.outcome = "ok"
    /\ C_D_.start = 0 /\ C_D_.stop = 180
    /\ \E i \in 1..Len(ret.y) :
           /\ ret.y[i] = 90
           /\ SqDist(90, C_D_)[0] = SqDist(90, C_D_)[1]
           /\ ret.value[i] = Column(C_.rows, 0)

\* C10: whenever no call is in progress, C_, C_D_ and W_ are all absent or
\* were all written by one fit call, so C_ has as many rows as W_ has channels.
C10_ModelIsWhole ==
    \/ (~C_.has /\ ~C_D_.has /\ ~W_.has)
    \/ (/\ C_.has /\ C_D_.has /\ W_.has
        /\ one_fit
        /\ C_.rows = W_.n_channels)

====
